---- MODULE Spec2Model ----
(***************************************************************************)
(* FIFO/FEFO lot-allocation ledger of app.py (Flask + SQLAlchemy).         *)
(*                                                                         *)
(* The state is the three tables the stock routes touch (item,             *)
(* stock_batch, stock_movement) and, for every request handler thread, its *)
(* position in the handler and the ORM objects it has loaded.  Each action *)
(* is one handler segment between two database round trips: a SELECT reads *)
(* the committed tables, a commit writes the unit of work in one           *)
(* transaction.  Primary keys are assigned as max(id)+1, as SQLite (the    *)
(* default DATABASE_URL) does for an INTEGER PRIMARY KEY, and foreign keys *)
(* are not enforced (SQLite default).  The timestamp column of             *)
(* stock_movement is written once by its default and read only by the      *)
(* report pages; it is left out.                                           *)
(***************************************************************************)
EXTENDS Integers, Sequences, FiniteSets, TLC

\* ---------------------------------------------------------------- bounds
NProc        == 2   \* concurrent request handler threads
MaxItems     == 2   \* largest item id (and the ids a request may name)
MaxBatches   == 2   \* largest stock_batch id, concurrent runs
MaxMovements == 3   \* largest stock_movement id, concurrent runs
MaxQty       == 2   \* largest quantity a form submits
MaxDate      == 1   \* expiry dates are 1..MaxDate
SeqBatches   == 2   \* largest stock_batch id, one request at a time
SeqMovements == 4   \* largest stock_movement id, one request at a time
RIBatches    == 2   \* largest stock_batch id, concurrent receive/issue
RIMovements  == 4   \* largest stock_movement id, concurrent receive/issue
OrdBatches   == 3   \* largest stock_batch id, walk-order runs
OrdDates     == 2   \* expiry dates are 1..OrdDates in walk-order runs
SumBatches   == 2   \* largest stock_batch id, summary runs
SumMovements == 4   \* largest stock_movement id, summary runs

\* expiry_date is nullable: NULL is the absent date.
NULL == 0

Procs   == 1..NProc
ItemIds == 1..MaxItems
Qtys    == 0..MaxQty
Dates   == 1..MaxDate
Expiries == Dates \cup {NULL}
Names   == {"a", "b"}
\* names a form submits where the letter case matters
CaseNames == {"a", "A", "b"}
Notes   == {"x", "y"}
\* note column of a movement that was inserted without a note
NoNote  == "null"

VARIABLES
    items,      \* table item:           set of [id, name]
    batches,    \* table stock_batch:    set of StockBatch rows
    movements,  \* table stock_movement: set of StockMovement rows
    proc,       \* per handler thread: position, request, loaded objects
    response,   \* what the step just taken answered to its client, if anything
    plan,       \* requests still to be submitted (batch runs), else "free"
    db0         \* the tables as they were when the run started

vars == <<items, batches, movements, proc, response, plan, db0>>

\* ------------------------------------------------------------ tables
Item(id, name) == [id |-> id, name |-> name]

StockBatch(id, item_id, qty, exp, at) ==
    [id |-> id, item_id |-> item_id, qty_received |-> qty,
     qty_remaining |-> qty, expiry_date |-> exp, received_at |-> at]

StockMovement(id, item_id, type, quantity, batch_id, note) ==
    [id |-> id, item_id |-> item_id, type |-> type, quantity |-> quantity,
     batch_id |-> batch_id, note |-> note]

Max(S) == CHOOSE x \in S : \A y \in S : y <= x
Min2(a, b) == IF a <= b THEN a ELSE b

\* INTEGER PRIMARY KEY: one more than the largest id in the table.
NextId(rows) == IF rows = {} THEN 1 ELSE Max({r.id : r \in rows}) + 1

ItemExists(item_id) == \E i \in items : i.id = item_id

\* default=datetime.utcnow: not earlier than any stored received_at; two
\* inserts may fall on the same clock reading.
Clock(bs) == IF bs = {} THEN {1}
             ELSE LET m == Max({b.received_at : b \in bs}) IN {m, m + 1}

RECURSIVE SumSeq(_)
SumSeq(s) == IF s = <<>> THEN 0 ELSE Head(s) + SumSeq(Tail(s))

\* func.sum(StockBatch.qty_remaining) over a set of rows
RECURSIVE SumRemaining(_)
SumRemaining(bs) ==
    IF bs = {} THEN 0
    ELSE LET b == CHOOSE x \in bs : TRUE
         IN b.qty_remaining + SumRemaining(bs \ {b})

\* sum of the quantity column over a set of movement rows
RECURSIVE SumQuantity(_)
SumQuantity(ms) ==
    IF ms = {} THEN 0
    ELSE LET m == CHOOSE x \in ms : TRUE
         IN m.quantity + SumQuantity(ms \ {m})

\* ------------------------------------------------------- handler threads
IdleProc == [pc |-> "idle", op |-> "none", item_id |-> 0, qty |-> 0,
             note |-> NoNote, name |-> "", batches |-> <<>>, issued |-> 0,
             flushed |-> 0, remain |-> 0, old_name |-> ""]

NoResponse == "none"

\* the handler returns: flash(...) and redirect, abort(404), or an exception
Finish(p, result) ==
    /\ proc' = [proc EXCEPT ![p] = IdleProc]
    /\ response' = result

\* the handler goes on to its next database round trip, nothing answered yet
Continue(p, rec) ==
    /\ proc' = [proc EXCEPT ![p] = rec]
    /\ response' = NoResponse

Idle(p) == proc[p].pc = "idle"

\* --------------------------------------------------------------- item_new
\* func.lower(Item.name) == name.lower() over the names in use
Lower(name) == IF name = "A" THEN "a" ELSE IF name = "B" THEN "b" ELSE name

\* POST /items/new up to the duplicate SELECT (lines 404-414)
ItemNewStart(p, name) ==
    /\ Idle(p)
    /\ IF name = ""
       THEN Finish(p, "InvalidInput")
       ELSE IF \E i \in items : Lower(i.name) = Lower(name)
       THEN Finish(p, "DuplicateName")
       ELSE Continue(p, [IdleProc EXCEPT !.pc = "item_new_commit",
                                         !.op = "item_new", !.name = name])
    /\ UNCHANGED <<items, batches, movements>>

\* db.session.add(item); commit (lines 415-417); name is UNIQUE in the table
ItemNewCommit(p) ==
    /\ proc[p].pc = "item_new_commit"
    /\ IF \E i \in items : i.name = proc[p].name
       THEN /\ Finish(p, "IntegrityError")
            /\ UNCHANGED items
       ELSE /\ items' = items \cup {Item(NextId(items), proc[p].name)}
            /\ Finish(p, "ok")
    /\ UNCHANGED <<batches, movements>>

\* -------------------------------------------------------------- item_edit
\* POST /items/<id>/edit up to the duplicate SELECT (lines 427-440); the item
\* object is loaded with its current name
ItemEditStart(p, item_id, name) ==
    /\ Idle(p)
    /\ IF ~ItemExists(item_id)
       THEN Finish(p, "NotFound")
       ELSE IF name = ""
       THEN Finish(p, "InvalidInput")
       ELSE IF \E i \in items : Lower(i.name) = Lower(name) /\ i.id # item_id
       THEN Finish(p, "DuplicateName")
       ELSE LET item == CHOOSE i \in items : i.id = item_id
            IN Continue(p, [IdleProc EXCEPT !.pc = "item_edit_commit",
                                            !.op = "item_edit",
                                            !.item_id = item_id,
                                            !.name = name,
                                            !.old_name = item.name])
    /\ UNCHANGED <<items, batches, movements>>

\* item.name = name; item.category_id = ...; commit (lines 441-443).  The
\* UPDATE is by primary key and sets the columns whose value changed: with
\* the name as loaded it sets no name (and there is no UPDATE at all when the
\* category is as loaded too).  An UPDATE that matches no row raises
\* StaleDataError, one that breaks UNIQUE(name) raises IntegrityError.
ItemEditCommit(p) ==
    /\ proc[p].pc = "item_edit_commit"
    /\ IF proc[p].name = proc[p].old_name
       THEN /\ \/ Finish(p, "ok")
               \/ ~ItemExists(proc[p].item_id) /\ Finish(p, "StaleDataError")
            /\ UNCHANGED items
       ELSE IF ~ItemExists(proc[p].item_id)
       THEN Finish(p, "StaleDataError") /\ UNCHANGED items
       ELSE IF \E i \in items : i.id # proc[p].item_id /\ i.name = proc[p].name
       THEN Finish(p, "IntegrityError") /\ UNCHANGED items
       ELSE /\ items' = {IF i.id = proc[p].item_id
                         THEN [i EXCEPT !.name = proc[p].name]
                         ELSE i : i \in items}
            /\ Finish(p, "ok")
    /\ UNCHANGED <<batches, movements>>

\* ------------------------------------------------------------ item_delete
\* POST /items/<id>/delete up to the admin check (lines 454-458)
ItemDeleteStart(p, item_id, is_admin) ==
    /\ Idle(p)
    /\ IF ~ItemExists(item_id)
       THEN Finish(p, "NotFound")
       ELSE IF ~is_admin
       THEN Finish(p, "Forbidden")
       ELSE Continue(p, [IdleProc EXCEPT !.pc = "item_delete_commit",
                                         !.op = "item_delete",
                                         !.item_id = item_id])
    /\ UNCHANGED <<items, batches, movements>>

\* item_delete without the bulk delete of the movements
ItemDeleteCommit_NoMovements(p) ==
    /\ proc[p].pc = "item_delete_commit"
    /\ batches' = {b \in batches : b.item_id # proc[p].item_id}
    /\ items' = {i \in items : i.id # proc[p].item_id}
    /\ Finish(p, "ok")
    /\ UNCHANGED movements

\* the two bulk deletes, the delete of the item and the commit (lines 460-463)
ItemDeleteCommit(p) ==
    /\ proc[p].pc = "item_delete_commit"
    /\ movements' = {m \in movements : m.item_id # proc[p].item_id}
    /\ batches' = {b \in batches : b.item_id # proc[p].item_id}
    /\ items' = {i \in items : i.id # proc[p].item_id}
    /\ Finish(p, "ok")

\* ---------------------------------------------------------------- receive
\* receive without the flush: batch.id is still unset when the movement is
\* built, so the movement carries no batch reference
ReceiveRows_NoFlush(bs, ms, item_id, qty, exp, note, at) ==
    LET batch == StockBatch(NextId(bs), item_id, qty, exp, at)
        mov == StockMovement(NextId(ms), item_id, "receive", qty, NULL, note)
    IN [batches |-> bs \cup {batch}, movements |-> ms \cup {mov}]

\* receive that records the movement with the quantity left at its default
ReceiveRows_NoQuantity(bs, ms, item_id, qty, exp, note, at) ==
    LET batch == StockBatch(NextId(bs), item_id, qty, exp, at)
        mov == StockMovement(NextId(ms), item_id, "receive", 0, batch.id, note)
    IN [batches |-> bs \cup {batch}, movements |-> ms \cup {mov}]

\* the tables after lines 484-487: the new batch (flushed to get its id) and
\* the receive movement that points at it
ReceiveRows(bs, ms, item_id, qty, exp, note, at) ==
    LET batch == StockBatch(NextId(bs), item_id, qty, exp, at)
        mov == StockMovement(NextId(ms), item_id, "receive", qty, batch.id, note)
    IN [batches |-> bs \cup {batch}, movements |-> ms \cup {mov}]

\* receive that rejects negative quantities only
Receive_ZeroAllowed(p, item_id, qty, exp, note) ==
    /\ Idle(p)
    /\ IF qty < 0
       THEN /\ Finish(p, "InvalidInput")
            /\ UNCHANGED <<batches, movements>>
       ELSE /\ \E at \in Clock(batches) :
                 LET db == ReceiveRows(batches, movements, item_id, qty, exp,
                                       note, at)
                 IN /\ batches' = db.batches
                    /\ movements' = db.movements
            /\ Finish(p, "ok")
    /\ UNCHANGED items

\* POST /receive (lines 472-489): one transaction, no existence check
Receive(p, item_id, qty, exp, note) ==
    /\ Idle(p)
    /\ IF qty <= 0
       THEN /\ Finish(p, "InvalidInput")
            /\ UNCHANGED <<batches, movements>>
       ELSE /\ \E at \in Clock(batches) :
                 LET db == ReceiveRows(batches, movements, item_id, qty, exp,
                                       note, at)
                 IN /\ batches' = db.batches
                    /\ movements' = db.movements
            /\ Finish(p, "ok")
    /\ UNCHANGED items

\* ------------------------------------------------------------- fifo_issue
\* the ORDER BY without nulls_last(): SQLite sorts NULL before every date
OrderBefore_NullsFirst(a, b) ==
    \/ a.expiry_date < b.expiry_date
    \/ a.expiry_date = b.expiry_date /\ a.received_at < b.received_at

\* order_by(expiry_date.asc().nulls_last(), received_at.asc())
OrderBefore(a, b) ==
    \/ a.expiry_date # NULL /\ b.expiry_date = NULL
    \/ a.expiry_date # NULL /\ b.expiry_date # NULL
         /\ a.expiry_date < b.expiry_date
    \/ a.expiry_date = b.expiry_date /\ a.received_at < b.received_at

\* the rows a query returns under that ORDER BY; rows equal on both keys
\* come in an order the database chooses
OrderBy(rows) ==
    {s \in [1..Cardinality(rows) -> rows] :
        /\ \A i, j \in 1..Cardinality(rows) : i # j => s[i] # s[j]
        /\ \A i, j \in 1..Cardinality(rows) : i < j => ~OrderBefore(s[j], s[i])}

\* filter_by(item_id=item.id).filter(qty_remaining > 0) (lines 164-165)
ActiveBatches(bs, item_id) ==
    {b \in bs : b.item_id = item_id /\ b.qty_remaining > 0}

\* fifo_issue with take = remain: the min() against the batch is forgotten
RECURSIVE Takes_NoMin(_, _)
Takes_NoMin(bs, remain) ==
    IF bs = <<>> \/ remain <= 0 THEN <<>>
    ELSE <<remain>> \o Takes_NoMin(Tail(bs), 0)

\* fifo_issue that debits the first batch only and never walks on
Takes_FirstOnly(bs, remain) ==
    IF bs = <<>> \/ remain <= 0 THEN <<>>
    ELSE <<Min2(Head(bs).qty_remaining, remain)>>

\* fifo_issue without the break: every batch read is walked and gets a
\* movement, also once nothing is left to issue
RECURSIVE Takes_NoBreak(_, _)
Takes_NoBreak(bs, remain) ==
    IF bs = <<>> THEN <<>>
    ELSE LET take == Min2(Head(bs).qty_remaining, remain)
         IN <<take>> \o Takes_NoBreak(Tail(bs), remain - take)

\* the loop of fifo_issue (lines 169-175): the take from each batch walked
RECURSIVE Takes(_, _)
Takes(bs, remain) ==
    IF bs = <<>> \/ remain <= 0 THEN <<>>
    ELSE LET take == Min2(Head(bs).qty_remaining, remain)
         IN <<take>> \o Takes(Tail(bs), remain - take)

\* POST /issue up to get_or_404 (lines 498-505)
IssueStart(p, item_id, qty, note) ==
    /\ Idle(p)
    /\ IF qty <= 0
       THEN Finish(p, "InvalidInput")
       ELSE IF ~ItemExists(item_id)
       THEN Finish(p, "NotFound")
       ELSE Continue(p, [IdleProc EXCEPT !.pc = "issue_read", !.op = "issue",
                                         !.item_id = item_id, !.qty = qty,
                                         !.note = note])
    /\ UNCHANGED <<items, batches, movements>>

\* the SELECT of fifo_issue (lines 163-168)
IssueRead(p) ==
    /\ proc[p].pc = "issue_read"
    /\ \E s \in OrderBy(ActiveBatches(batches, proc[p].item_id)) :
         Continue(p, [proc[p] EXCEPT !.pc = "issue_commit", !.batches = s])
    /\ UNCHANGED <<items, batches, movements>>

\* fifo_issue under the other policy: an issue larger than the stock read
\* is rolled back and issues nothing
FifoIssueRows_AllOrNothing(bs, ms, loaded, item_id, qty) ==
    LET takes == Takes(loaded, qty)
        n == Len(takes)
        base == NextId(ms)
    IN IF SumSeq(takes) < qty
       THEN [stale |-> FALSE, batches |-> bs, movements |-> ms, issued |-> 0]
       ELSE [stale |-> FALSE,
             batches |->
                {IF \E i \in 1..n : loaded[i].id = b.id
                 THEN LET i == CHOOSE k \in 1..n : loaded[k].id = b.id
                      IN [b EXCEPT !.qty_remaining =
                                      loaded[i].qty_remaining - takes[i]]
                 ELSE b : b \in bs},
             movements |-> ms \cup
                {StockMovement(base + i - 1, item_id, "issue", takes[i],
                               loaded[i].id, NoNote) : i \in 1..n},
             issued |-> SumSeq(takes)]

\* the loop and the commit of fifo_issue (lines 169-178) on the batch objects
\* `loaded`: the flush writes each walked batch's new qty_remaining by primary
\* key and inserts one movement per walked batch.  An UPDATE that matches no
\* row raises StaleDataError and the transaction is rolled back.
FifoIssueRows(bs, ms, loaded, item_id, qty) ==
    LET takes == Takes(loaded, qty)
        n == Len(takes)
        base == NextId(ms)
    IN IF \E i \in 1..n : \A b \in bs : b.id # loaded[i].id
       THEN [stale |-> TRUE, batches |-> bs, movements |-> ms, issued |-> 0]
       ELSE [stale |-> FALSE,
             batches |->
                {IF \E i \in 1..n : loaded[i].id = b.id
                 THEN LET i == CHOOSE k \in 1..n : loaded[k].id = b.id
                      IN [b EXCEPT !.qty_remaining =
                                      loaded[i].qty_remaining - takes[i]]
                 ELSE b : b \in bs},
             movements |-> ms \cup
                {StockMovement(base + i - 1, item_id, "issue", takes[i],
                               loaded[i].id, NoNote) : i \in 1..n},
             issued |-> SumSeq(takes)]

\* db.session.commit() moved into the loop: every batch's debit is committed
\* on its own as soon as it is computed
IssueFlush_CommitEach(p) ==
    /\ proc[p].pc = "issue_commit"
    /\ proc[p].flushed < Len(Takes(proc[p].batches, proc[p].qty))
    /\ \A r \in Procs \ {p} : proc[r].flushed = 0
    /\ LET loaded == proc[p].batches
           takes == Takes(loaded, proc[p].qty)
           i == proc[p].flushed + 1
       IN batches' = {IF b.id = loaded[i].id
                      THEN [b EXCEPT !.qty_remaining =
                                        loaded[i].qty_remaining - takes[i]]
                      ELSE b : b \in batches}
    /\ Continue(p, [proc[p] EXCEPT !.flushed = @ + 1])
    /\ UNCHANGED <<items, movements>>

\* the flush inside db.session.commit() (line 177): the UPDATE of the next
\* walked batch is sent in the open transaction.  Until the COMMIT the other
\* connections read the committed rows, so the tables are unchanged; one
\* connection at a time holds the database's write lock.
IssueFlush(p) ==
    /\ proc[p].pc = "issue_commit"
    /\ proc[p].flushed < Len(Takes(proc[p].batches, proc[p].qty))
    /\ \A r \in Procs \ {p} : proc[r].flushed = 0
    /\ Continue(p, [proc[p] EXCEPT !.flushed = @ + 1])
    /\ UNCHANGED <<items, batches, movements>>

\* the rest of the flush and the COMMIT (line 177), and the return (line 178)
IssueCommit(p) ==
    /\ proc[p].pc = "issue_commit"
    /\ LET db == FifoIssueRows(batches, movements, proc[p].batches,
                               proc[p].item_id, proc[p].qty)
       IN IF db.stale
          THEN /\ Finish(p, "StaleDataError")
               /\ UNCHANGED <<batches, movements>>
          ELSE /\ batches' = db.batches
               /\ movements' = db.movements
               /\ Continue(p, [proc[p] EXCEPT !.pc = "issue_note",
                                               !.issued = db.issued,
                                               !.flushed = 0])
    /\ UNCHANGED items

\* lines 511-512: the note goes on the item's issue movement with the
\* largest id, if there is one
NoteRows(ms, item_id, note) ==
    LET mine == {m \in ms : m.item_id = item_id /\ m.type = "issue"}
    IN IF mine = {} THEN ms
       ELSE LET last == CHOOSE m \in mine : \A x \in mine : x.id <= m.id
            IN (ms \ {last}) \cup {[last EXCEPT !.note = note]}

\* the rest of issue (lines 507-514): warn on a shortfall, else note
IssueNote(p) ==
    /\ proc[p].pc = "issue_note"
    /\ IF proc[p].issued < proc[p].qty
       THEN /\ Finish(p, "warning")
            /\ UNCHANGED movements
       ELSE /\ movements' = NoteRows(movements, proc[p].item_id, proc[p].note)
            /\ Finish(p, "ok")
    /\ UNCHANGED <<items, batches>>

\* --------------------------------------------------------- item_summary_row
\* total_remain (lines 183-184)
Balance(item_id) == SumRemaining({b \in batches : b.item_id = item_id})

\* expiry_date.strftime("%Y-%m-%d"): the date as text
Strftime(d) == ToString(d)
\* next_expiry when the query finds no row
NoExpiry == "-"

\* the next_exp query without the qty_remaining > 0 filter
NextExpRows_WithEmptied(bs, item_id) ==
    {b \in bs : b.item_id = item_id /\ b.expiry_date # NULL}

\* the rows of the next_exp query (lines 187-189)
NextExpRows(bs, item_id) ==
    {b \in bs : /\ b.item_id = item_id
                /\ b.qty_remaining > 0
                /\ b.expiry_date # NULL}

\* item_summary_row for one item the route has listed: the SELECT of
\* total_remain (lines 183-184)
SummaryStart(p, item_id) ==
    /\ Idle(p)
    /\ ItemExists(item_id)
    /\ Continue(p, [IdleProc EXCEPT !.pc = "summary_next", !.op = "summary",
                                    !.item_id = item_id,
                                    !.remain = Balance(item_id)])
    /\ UNCHANGED <<items, batches, movements>>

\* the SELECT of next_exp, order_by(expiry_date.asc()).first(), and the row
\* returned (lines 186-193, 206-214)
SummaryNext(p) ==
    /\ proc[p].pc = "summary_next"
    /\ LET rows == NextExpRows(batches, proc[p].item_id)
       IN IF rows = {}
          THEN Finish(p, [remain |-> proc[p].remain, next_expiry |-> NoExpiry])
          ELSE \E next_exp \in rows :
                 /\ \A b \in rows : next_exp.expiry_date <= b.expiry_date
                 /\ Finish(p, [remain |-> proc[p].remain,
                               next_expiry |-> Strftime(next_exp.expiry_date)])
    /\ UNCHANGED <<items, batches, movements>>

\* ---------------------------------------------------------- bounded runs
NoPlan == [op |-> "none", qty |-> 0, exp |-> NULL, state |-> "done",
           issued |-> 0, overdrawn |-> FALSE, created |-> {}]

EmptyDb == [items |-> {}, batches |-> {}, movements |-> {}]

\* rows the tables can still take within the bounds
RoomFor(nb, nm, maxb, maxm) ==
    /\ NextId(batches) - 1 + nb <= maxb
    /\ NextId(movements) - 1 + nm <= maxm
    /\ \A at \in Clock(batches) : at <= maxb

\* ------------------------------------------------------------------- Spec
\* every stock route, NProc threads, from the empty database
Init ==
    /\ items = {}
    /\ batches = {}
    /\ movements = {}
    /\ proc = [p \in Procs |-> IdleProc]
    /\ response = NoResponse
    /\ plan = [p \in Procs |-> NoPlan]
    /\ db0 = EmptyDb

DoItemNew ==
    \E p \in Procs, name \in Names \cup {""} :
        /\ NextId(items) <= MaxItems
        /\ ItemNewStart(p, name)
        /\ UNCHANGED <<plan, db0>>
DoItemNewCommit ==
    \E p \in Procs :
        /\ NextId(items) <= MaxItems
        /\ ItemNewCommit(p)
        /\ UNCHANGED <<plan, db0>>
DoItemDelete ==
    \E p \in Procs, item_id \in ItemIds, is_admin \in BOOLEAN :
        ItemDeleteStart(p, item_id, is_admin) /\ UNCHANGED <<plan, db0>>
DoItemDeleteCommit ==
    \E p \in Procs : ItemDeleteCommit(p) /\ UNCHANGED <<plan, db0>>
DoReceive ==
    \E p \in Procs, item_id \in ItemIds, qty \in {-1, 0, 1}, exp \in {NULL},
       note \in {"x"} :
        /\ qty > 0 => RoomFor(1, 1, MaxBatches, MaxMovements)
        /\ Receive(p, item_id, qty, exp, note)
        /\ UNCHANGED <<plan, db0>>
DoIssue ==
    \E p \in Procs, item_id \in ItemIds, qty \in {-1, 0, 1}, note \in {"y"} :
        IssueStart(p, item_id, qty, note) /\ UNCHANGED <<plan, db0>>
DoIssueRead ==
    \E p \in Procs : IssueRead(p) /\ UNCHANGED <<plan, db0>>
DoIssueCommit ==
    \E p \in Procs :
        /\ RoomFor(0, Len(Takes(proc[p].batches, proc[p].qty)),
                   MaxBatches, MaxMovements)
        /\ IssueCommit(p)
        /\ UNCHANGED <<plan, db0>>
DoIssueNote ==
    \E p \in Procs : IssueNote(p) /\ UNCHANGED <<plan, db0>>

Next ==
    \/ DoItemNew
    \/ DoItemNewCommit
    \/ DoItemDelete
    \/ DoItemDeleteCommit
    \/ DoReceive
    \/ DoIssue
    \/ DoIssueRead
    \/ DoIssueCommit
    \/ DoIssueNote

Spec == Init /\ [][Next]_vars

\* ---------------------------------------------------------------- SpecSeq
\* receives and issues on item 1, one request at a time
InitSeq ==
    /\ items = {Item(1, "a")}
    /\ batches = {}
    /\ movements = {}
    /\ proc = [p \in Procs |-> IdleProc]
    /\ response = NoResponse
    /\ plan = [p \in Procs |-> NoPlan]
    /\ db0 = [EmptyDb EXCEPT !.items = {Item(1, "a")}]

SeqReceive ==
    \E qty \in Qtys, exp \in {NULL, 1} :
        /\ qty > 0 => RoomFor(1, 1, SeqBatches, SeqMovements)
        /\ Receive(1, 1, qty, exp, "x")
        /\ UNCHANGED <<plan, db0>>
SeqIssue ==
    \E qty \in Qtys :
        IssueStart(1, 1, qty, "y") /\ UNCHANGED <<plan, db0>>
SeqIssueRead == IssueRead(1) /\ UNCHANGED <<plan, db0>>
SeqIssueCommit ==
    /\ RoomFor(0, Len(Takes(proc[1].batches, proc[1].qty)),
               SeqBatches, SeqMovements)
    /\ IssueCommit(1)
    /\ UNCHANGED <<plan, db0>>
SeqIssueNote == IssueNote(1) /\ UNCHANGED <<plan, db0>>

NextSeq ==
    \/ SeqReceive
    \/ SeqIssue
    \/ SeqIssueRead
    \/ SeqIssueCommit
    \/ SeqIssueNote

SpecSeq == InitSeq /\ [][NextSeq]_vars

\* --------------------------------------------------------------- SpecOrder
\* single units received with any expiry and issued again, one request at a
\* time: the lots an issue reads and the summary, over every mix of dated,
\* undated and emptied lots
OrdReceive ==
    \E exp \in (1..OrdDates) \cup {NULL} :
        /\ NextId(batches) <= OrdBatches
        /\ Receive(1, 1, 1, exp, "x")
        /\ UNCHANGED <<plan, db0>>
OrdIssue == IssueStart(1, 1, 1, "y") /\ UNCHANGED <<plan, db0>>
OrdIssueRead == IssueRead(1) /\ UNCHANGED <<plan, db0>>
OrdIssueCommit == IssueCommit(1) /\ UNCHANGED <<plan, db0>>
OrdIssueNote == IssueNote(1) /\ UNCHANGED <<plan, db0>>
OrdSummary == SummaryStart(1, 1) /\ UNCHANGED <<plan, db0>>
OrdSummaryNext == SummaryNext(1) /\ UNCHANGED <<plan, db0>>

NextOrder ==
    \/ OrdReceive
    \/ OrdIssue
    \/ OrdIssueRead
    \/ OrdIssueCommit
    \/ OrdIssueNote
    \/ OrdSummary
    \/ OrdSummaryNext

SpecOrder == InitSeq /\ [][NextOrder]_vars

\* --------------------------------------------------------------- SpecItems
\* the item routes from NProc threads, names differing in letter case
ItmNew ==
    \E p \in Procs, name \in CaseNames \cup {""} :
        /\ NextId(items) <= MaxItems
        /\ ItemNewStart(p, name)
        /\ UNCHANGED <<plan, db0>>
ItmNewCommit ==
    \E p \in Procs :
        /\ NextId(items) <= MaxItems
        /\ ItemNewCommit(p)
        /\ UNCHANGED <<plan, db0>>
ItmEdit ==
    \E p \in Procs, item_id \in ItemIds, name \in CaseNames \cup {""} :
        ItemEditStart(p, item_id, name) /\ UNCHANGED <<plan, db0>>
ItmEditCommit ==
    \E p \in Procs : ItemEditCommit(p) /\ UNCHANGED <<plan, db0>>
ItmDelete ==
    \E p \in Procs, item_id \in ItemIds, is_admin \in BOOLEAN :
        ItemDeleteStart(p, item_id, is_admin) /\ UNCHANGED <<plan, db0>>
ItmDeleteCommit ==
    \E p \in Procs : ItemDeleteCommit(p) /\ UNCHANGED <<plan, db0>>

NextItems ==
    \/ ItmNew
    \/ ItmNewCommit
    \/ ItmEdit
    \/ ItmEditCommit
    \/ ItmDelete
    \/ ItmDeleteCommit

SpecItems == Init /\ [][NextItems]_vars

\* ------------------------------------------------------------- SpecSummary
\* thread 1 receives and issues on item 1, its flush sending one UPDATE at a
\* time, while thread 2 reads the item's summary
SumReceive ==
    \E qty \in {1, 2} :
        /\ RoomFor(1, 1, SumBatches, SumMovements)
        /\ Receive(1, 1, qty, NULL, "x")
        /\ UNCHANGED <<plan, db0>>
SumIssue ==
    \E qty \in 1..MaxQty :
        IssueStart(1, 1, qty, "y") /\ UNCHANGED <<plan, db0>>
SumIssueRead == IssueRead(1) /\ UNCHANGED <<plan, db0>>
SumIssueFlush == IssueFlush(1) /\ UNCHANGED <<plan, db0>>
SumIssueCommit ==
    /\ RoomFor(0, Len(Takes(proc[1].batches, proc[1].qty)),
               SumBatches, SumMovements)
    /\ proc[1].flushed = Len(Takes(proc[1].batches, proc[1].qty))
    /\ IssueCommit(1)
    /\ UNCHANGED <<plan, db0>>
SumIssueNote == IssueNote(1) /\ UNCHANGED <<plan, db0>>
SumSummary == SummaryStart(2, 1) /\ UNCHANGED <<plan, db0>>
SumSummaryNext == SummaryNext(2) /\ UNCHANGED <<plan, db0>>

NextSummary ==
    \/ SumReceive
    \/ SumIssue
    \/ SumIssueRead
    \/ SumIssueFlush
    \/ SumIssueCommit
    \/ SumIssueNote
    \/ SumSummary
    \/ SumSummaryNext

SpecSummary == InitSeq /\ [][NextSummary]_vars

\* ----------------------------------------------------------------- SpecRI
\* receives and issues on item 1 from NProc threads at once
RIReceive ==
    \E p \in Procs, qty \in Qtys, exp \in Expiries :
        /\ qty > 0 => RoomFor(1, 1, RIBatches, RIMovements)
        /\ Receive(p, 1, qty, exp, "x")
        /\ UNCHANGED <<plan, db0>>
RIIssue ==
    \E p \in Procs, qty \in Qtys :
        IssueStart(p, 1, qty, "y") /\ UNCHANGED <<plan, db0>>
RIIssueRead ==
    \E p \in Procs : IssueRead(p) /\ UNCHANGED <<plan, db0>>
RIIssueCommit ==
    \E p \in Procs :
        /\ RoomFor(0, Len(Takes(proc[p].batches, proc[p].qty)),
                   RIBatches, RIMovements)
        /\ IssueCommit(p)
        /\ UNCHANGED <<plan, db0>>
RIIssueNote ==
    \E p \in Procs : IssueNote(p) /\ UNCHANGED <<plan, db0>>

NextRI ==
    \/ RIReceive
    \/ RIIssue
    \/ RIIssueRead
    \/ RIIssueCommit
    \/ RIIssueNote

SpecRI == InitSeq /\ [][NextRI]_vars

\* -------------------------------------------------------------- SpecBatch
\* one request per thread, all submitted at once against item 1, whose stock
\* was received before the run started
ReceivedOnce ==
    {ReceiveRows({}, {}, 1, q, e, "x", 1) : q \in 1..MaxQty, e \in Expiries}
ReceivedTwice ==
    UNION {{ReceiveRows(d.batches, d.movements, 1, q, e, "x", at) :
                q \in 1..MaxQty, e \in Expiries, at \in Clock(d.batches)} :
           d \in ReceivedOnce}

BatchRequests ==
    {[NoPlan EXCEPT !.op = "issue", !.qty = q, !.state = "todo"] :
        q \in 1..MaxQty}
    \cup {[NoPlan EXCEPT !.op = "receive", !.qty = q, !.exp = e,
                         !.state = "todo"] : q \in 1..MaxQty, e \in Expiries}

InitBatch ==
    /\ items = {Item(1, "a")}
    /\ \E d \in ReceivedOnce \cup ReceivedTwice :
         /\ batches = d.batches
         /\ movements = d.movements
         /\ db0 = [items |-> {Item(1, "a")}, batches |-> d.batches,
                   movements |-> d.movements]
    /\ proc = [p \in Procs |-> IdleProc]
    /\ response = NoResponse
    /\ plan \in [Procs -> BatchRequests]

BatchReceive ==
    \E p \in Procs :
        /\ plan[p].op = "receive" /\ plan[p].state = "todo"
        /\ Receive(p, 1, plan[p].qty, plan[p].exp, "x")
        /\ plan' = [plan EXCEPT ![p].state = "done"]
        /\ UNCHANGED db0
BatchIssue ==
    \E p \in Procs :
        /\ plan[p].op = "issue" /\ plan[p].state = "todo"
        /\ IssueStart(p, 1, plan[p].qty, "y")
        /\ plan' = [plan EXCEPT ![p].state = "running"]
        /\ UNCHANGED db0
BatchIssueRead ==
    \E p \in Procs : IssueRead(p) /\ UNCHANGED <<plan, db0>>
\* a debit overdraws when it takes more than the row holds as it is applied;
\* created: the ids of the movements the request has inserted
BatchIssueCommit ==
    \E p \in Procs :
        /\ IssueCommit(p)
        /\ LET bs == proc[p].batches
               takes == Takes(bs, proc[p].qty)
           IN plan' = [plan EXCEPT ![p].issued = proc'[p].issued,
                  ![p].overdrawn =
                      \E i \in 1..Len(takes) : \E b \in batches :
                          b.id = bs[i].id /\ takes[i] > b.qty_remaining,
                  ![p].created = {m.id : m \in movements' \ movements}]
        /\ UNCHANGED db0
BatchIssueNote ==
    \E p \in Procs :
        /\ IssueNote(p)
        /\ plan' = [plan EXCEPT ![p].state = "done"]
        /\ UNCHANGED db0

NextBatch ==
    \/ BatchReceive
    \/ BatchIssue
    \/ BatchIssueRead
    \/ BatchIssueCommit
    \/ BatchIssueNote

SpecBatch == InitBatch /\ [][NextBatch]_vars

AllDone == \A p \in Procs : plan[p].state = "done" /\ plan[p].op # "none"

\* what thread p's request does when nothing runs beside it: the tables and
\* the issued quantities it can leave, from tables d
AloneOutcomes(d, p) ==
    IF plan[p].op = "receive"
    THEN {LET r == ReceiveRows(d.batches, d.movements, 1, plan[p].qty,
                               plan[p].exp, "x", at)
          IN [batches |-> r.batches, movements |-> r.movements,
              issued |-> d.issued] : at \in Clock(d.batches)}
    ELSE {LET r == FifoIssueRows(d.batches, d.movements, s, 1, plan[p].qty)
          IN [batches |-> r.batches,
              movements |-> IF r.issued < plan[p].qty THEN r.movements
                            ELSE NoteRows(r.movements, 1, "y"),
              issued |-> [d.issued EXCEPT ![p] = r.issued]] :
          s \in OrderBy(ActiveBatches(d.batches, 1))}

\* the outcomes of running the threads' requests one after another in `order`
RECURSIVE SerialOutcomes(_, _)
SerialOutcomes(ds, order) ==
    IF order = <<>> THEN ds
    ELSE SerialOutcomes(UNION {AloneOutcomes(d, Head(order)) : d \in ds},
                        Tail(order))

Orders == {o \in [1..NProc -> Procs] : \A i, j \in 1..NProc : i # j => o[i] # o[j]}

RECURSIVE SumPlanned(_)
SumPlanned(ps) ==
    IF ps = {} THEN 0
    ELSE LET p == CHOOSE x \in ps : TRUE IN plan[p].qty + SumPlanned(ps \ {p})

RECURSIVE SumIssued(_)
SumIssued(ps) ==
    IF ps = {} THEN 0
    ELSE LET p == CHOOSE x \in ps : TRUE IN plan[p].issued + SumIssued(ps \ {p})

\* ================================================================ claims
IssueMovements(item_id) ==
    {m \in movements : m.item_id = item_id /\ m.type = "issue"}
ReceiveMovements(item_id) ==
    {m \in movements : m.item_id = item_id /\ m.type = "receive"}

\* C1: under one-at-a-time receives and issues, every item's balance (the sum
\* of qty_remaining over its lots) equals its received quantities minus its
\* issued quantities, and is never negative.
C1_BalanceIsLedger ==
    \A it \in ItemIds :
        /\ Balance(it) = SumQuantity(ReceiveMovements(it))
                           - SumQuantity(IssueMovements(it))
        /\ Balance(it) >= 0

\* stock received twice and partly issued
C1_Witness ==
    /\ Cardinality(ReceiveMovements(1)) >= 2
    /\ IssueMovements(1) # {}
    /\ Balance(1) > 0

\* C4: under concurrent receives and issues, every lot has qty_received > 0
\* and 0 <= qty_remaining <= qty_received.
C4_LotWithinBounds ==
    \A b \in batches :
        /\ b.qty_received > 0
        /\ 0 <= b.qty_remaining
        /\ b.qty_remaining <= b.qty_received

\* a lot that two overlapping issues have debited: more was issued from it
\* than it has lost
C4_Witness ==
    \E b \in batches :
        b.qty_received - b.qty_remaining
            < SumQuantity({m \in movements :
                              m.type = "issue" /\ m.batch_id = b.id})

\* the order the claim asks of two lots walked one after the other
DatedFirstThenReceipt(a, b) ==
    \/ a.expiry_date # NULL /\ b.expiry_date = NULL
    \/ a.expiry_date # NULL /\ b.expiry_date # NULL
         /\ a.expiry_date < b.expiry_date
    \/ a.expiry_date = b.expiry_date /\ a.received_at <= b.received_at

\* C5: the lots an issue has read to walk are exactly the item's lots with
\* qty_remaining > 0, each once, dated lots first by ascending expiry, lots
\* without expiry last, and ascending received_at within equal expiry.
C5_WalkOrder ==
    \A p \in Procs :
        proc[p].pc = "issue_commit" =>
            LET s == proc[p].batches
            IN /\ {s[i] : i \in 1..Len(s)} =
                    {b \in batches : b.item_id = proc[p].item_id
                                       /\ b.qty_remaining > 0}
               /\ Len(s) = Cardinality({s[i] : i \in 1..Len(s)})
               /\ \A i, j \in 1..Len(s) :
                    i < j => DatedFirstThenReceipt(s[i], s[j])

\* lots received with expiries [2, none, 1] are walked as [1, 2, none]
C5_Witness ==
    \E p \in Procs :
        /\ proc[p].pc = "issue_commit"
        /\ Len(proc[p].batches) = 3
        /\ proc[p].batches[1].id = 3 /\ proc[p].batches[1].expiry_date = 1
        /\ proc[p].batches[2].id = 1 /\ proc[p].batches[2].expiry_date = 2
        /\ proc[p].batches[3].id = 2 /\ proc[p].batches[3].expiry_date = NULL

\* what is left to issue when the walk reaches position i of s
LeftAt(s, qty, i) ==
    LET before == SumSeq([j \in 1..(i - 1) |-> s[j].qty_remaining])
    IN IF qty > before THEN qty - before ELSE 0

\* C6: once an issue of qty > 0 has committed, each lot it read, in order,
\* has lost min(its qty_remaining, what was left to issue), lots past the
\* point where nothing was left are unchanged, and the issued quantity is
\* min(qty, balance before the issue).
C6_Allocation ==
    \A p \in Procs :
        proc[p].pc = "issue_note" =>
            LET s == proc[p].batches
                qty == proc[p].qty
                total == SumSeq([j \in 1..Len(s) |-> s[j].qty_remaining])
            IN /\ \A i \in 1..Len(s) :
                    \E b \in batches :
                        /\ b.id = s[i].id
                        /\ b = [s[i] EXCEPT !.qty_remaining =
                                 s[i].qty_remaining
                                   - Min2(s[i].qty_remaining, LeftAt(s, qty, i))]
               /\ proc[p].issued = Min2(qty, total)
               /\ qty - proc[p].issued >= 0

\* an issue that emptied its first lot and took part of the second
C6_Witness ==
    \E p \in Procs :
        /\ proc[p].pc = "issue_note"
        /\ Len(proc[p].batches) >= 2
        /\ proc[p].issued = proc[p].qty
        /\ \E b \in batches :
             /\ b.id = proc[p].batches[2].id
             /\ 0 < b.qty_remaining
             /\ b.qty_remaining < proc[p].batches[2].qty_remaining

\* C7: an issue that asked for more than the balance is not rejected or
\* rolled back: what it read is debited and committed, the balance is 0, and
\* the handler answers with a warning and leaves the tables as committed.
C7_PartialIssueCommits ==
    [][\A p \in Procs :
          (proc[p].pc = "issue_note" /\ proc'[p].pc = "idle"
             /\ proc[p].issued < proc[p].qty)
          => /\ response' = "warning"
             /\ batches' = batches /\ movements' = movements
             /\ Balance(proc[p].item_id) = 0
             /\ proc[p].issued =
                  SumSeq([j \in 1..Len(proc[p].batches) |->
                             proc[p].batches[j].qty_remaining])
             /\ SumQuantity(IssueMovements(proc[p].item_id)) >= proc[p].issued
      ]_vars

\* a committed issue that took some stock but less than asked
C7_Witness ==
    \E p \in Procs :
        /\ proc[p].pc = "issue_note"
        /\ 0 < proc[p].issued
        /\ proc[p].issued < proc[p].qty

\* C8: a successful receive of quantity q adds exactly one lot, with
\* qty_received = qty_remaining = q, and exactly one receive movement of
\* quantity q that references it, in one step; and in every committed state
\* each lot has exactly one receive movement and each receive movement its lot.
C8_ReceiveAtomic ==
    /\ [](/\ \A b \in batches :
               Cardinality({m \in movements :
                               /\ m.type = "receive" /\ m.batch_id = b.id
                               /\ m.item_id = b.item_id
                               /\ m.quantity = b.qty_received}) = 1
          /\ \A m \in movements :
               m.type = "receive" => \E b \in batches : b.id = m.batch_id)
    /\ [][\A p \in Procs, q \in 1..MaxQty, e \in Expiries :
            (proc' = proc /\ response' = "ok" /\ Receive(p, 1, q, e, "x")) =>
                \E b \in batches' \ batches, m \in movements' \ movements :
                    /\ batches' = batches \cup {b}
                    /\ movements' = movements \cup {m}
                    /\ b.item_id = 1
                    /\ b.qty_received = q /\ b.qty_remaining = q
                    /\ m.type = "receive" /\ m.quantity = q
                    /\ m.item_id = 1 /\ m.batch_id = b.id
         ]_vars

\* a second receive has committed while an issue that read before it is
\* still to commit
C8_Witness ==
    \E p \in Procs, b \in batches :
        /\ proc[p].pc = "issue_commit"
        /\ b.id = 2
        /\ \A i \in 1..Len(proc[p].batches) : proc[p].batches[i].id # b.id
        /\ \E m \in movements : m.type = "receive" /\ m.batch_id = b.id

\* C2: when concurrent issues on item 1 that together ask for exactly its
\* balance have all completed, the balance is 0, the issued quantities sum
\* to the original balance, and no debit took more than the lot held as it
\* was applied.
C2_ConcurrentIssuesDrain ==
    (/\ AllDone
     /\ \A p \in Procs : plan[p].op = "issue"
     /\ SumPlanned(Procs) = SumRemaining(db0.batches))
    => /\ Balance(1) = 0
       /\ SumIssued(Procs) = SumRemaining(db0.batches)
       /\ \A p \in Procs : ~plan[p].overdrawn

\* a movement log without its surrogate keys: each distinct entry with the
\* number of rows that carry it
Entry(m) == [item_id |-> m.item_id, type |-> m.type, quantity |-> m.quantity,
             batch_id |-> m.batch_id, note |-> m.note]
Log(ms) ==
    {[entry |-> Entry(m),
      rows |-> Cardinality({x \in ms : Entry(x) = Entry(m)})] : m \in ms}

\* C3: when concurrent receives and issues on item 1 have all completed, the
\* lots, the movement log (up to the ids of its rows) and every call's
\* issued quantity are those of running the same requests one after another
\* in some order.
C3_Serializable ==
    AllDone =>
        \E o \in Orders :
            \E d \in SerialOutcomes({[batches |-> db0.batches,
                                      movements |-> db0.movements,
                                      issued |-> [p \in Procs |-> 0]]}, o) :
                /\ d.batches = batches
                /\ Log(d.movements) = Log(movements)
                /\ d.issued = [p \in Procs |-> plan[p].issued]

\* C9: a receive (of a valid quantity) for an item id that names no item
\* answers NotFound and creates no lot and no movement.
C9_ReceiveUnknownItem ==
    [][\A p \in Procs, item_id \in ItemIds :
          (proc' = proc /\ ~ItemExists(item_id)
             /\ Receive(p, item_id, 1, NULL, "x"))
          => /\ response' = "NotFound"
             /\ batches' = batches
             /\ movements' = movements
      ]_vars

\* C10: every lot and every movement references an item that exists.
C10_NoOrphans ==
    /\ \A b \in batches : ItemExists(b.item_id)
    /\ \A m \in movements : ItemExists(m.item_id)

\* C11: a movement, once created, is never updated (item, type, quantity,
\* batch reference and note stay as written) and never deleted, except in the
\* step that deletes its owning item.
C11_MovementsImmutable ==
    [][\A m \in movements :
          \/ m \in movements'
          \/ \E i \in items : i.id = m.item_id /\ i \notin items'
      ]_vars

\* C12: the commit of a delete of an existing item removes, in one step, the
\* item, all of its lots and all of its movements, so that no lot or movement
\* with that item id is left, and leaves the other items' rows unchanged.
C12_DeleteCascades ==
    [][\A p \in Procs :
          (/\ proc[p].pc = "item_delete_commit"
           /\ proc'[p].pc = "idle"
           /\ ItemExists(proc[p].item_id))
          => LET d == proc[p].item_id
             IN /\ response' = "ok"
                /\ \A i \in items' : i.id # d
                /\ \A b \in batches' : b.item_id # d
                /\ \A m \in movements' : m.item_id # d
                /\ {i \in items' : i.id # d} = {i \in items : i.id # d}
                /\ {b \in batches' : b.item_id # d}
                     = {b \in batches : b.item_id # d}
                /\ {m \in movements' : m.item_id # d}
                     = {m \in movements : m.item_id # d}
      ]_vars

\* a delete about to commit on an item that has a lot and movements, beside
\* another item that has a lot and a movement of its own
C12_Witness ==
    \E p \in Procs :
        /\ proc[p].pc = "item_delete_commit"
        /\ ItemExists(proc[p].item_id)
        /\ \E b \in batches : b.item_id = proc[p].item_id
        /\ \E m \in movements : m.item_id = proc[p].item_id
        /\ \E i \in items, b \in batches, m \in movements :
             /\ i.id # proc[p].item_id
             /\ b.item_id = i.id
             /\ m.item_id = i.id

\* C13: a receive or an issue with quantity <= 0 is answered InvalidInput and
\* leaves the lots and the movement log as they were.
C13_NonPositiveRejected ==
    [][\A p \in Procs, item_id \in ItemIds, qty \in {-1, 0} :
          (/\ proc' = proc
           /\ \/ Receive(p, item_id, qty, NULL, "x")
              \/ IssueStart(p, item_id, qty, "y"))
          => /\ response' = "InvalidInput"
             /\ batches' = batches
             /\ movements' = movements
      ]_vars

\* a request was rejected as invalid while stock and movements exist
C13_Witness ==
    /\ response = "InvalidInput"
    /\ batches # {}
    /\ movements # {}

\* C14: the commit of an issue appends exactly one 'issue' movement per lot
\* it debits, referencing that lot and carrying the amount taken from it (the
\* lot is written as what the issue read less that amount), and nothing else;
\* the appended quantities sum to the issued quantity; and no movement,
\* receive or issue, is ever recorded with a quantity that is not > 0.
C14_OneMovementPerDebit ==
    /\ [](\A m \in movements : m.quantity > 0)
    /\ [][\A p \in Procs :
            (proc[p].pc = "issue_commit" /\ proc'[p].pc = "issue_note") =>
                LET s == proc[p].batches
                    new == movements' \ movements
                    want(i) == Min2(s[i].qty_remaining,
                                    LeftAt(s, proc[p].qty, i))
                IN /\ movements \subseteq movements'
                   /\ \A i \in 1..Len(s) :
                        Cardinality({m \in new : m.batch_id = s[i].id})
                            = IF want(i) > 0 THEN 1 ELSE 0
                   /\ \A m \in new :
                        /\ m.type = "issue"
                        /\ m.item_id = proc[p].item_id
                        /\ \E i \in 1..Len(s), b \in batches' :
                             /\ m.batch_id = s[i].id
                             /\ b.id = s[i].id
                             /\ m.quantity = want(i)
                             /\ b.qty_remaining = s[i].qty_remaining - want(i)
                   /\ SumQuantity(new) = proc'[p].issued
         ]_vars

\* a committed issue that debited two lots and has a movement for each
C14_Witness ==
    \E p \in Procs :
        /\ proc[p].pc = "issue_note"
        /\ Len(proc[p].batches) >= 2
        /\ \E m1, m2 \in movements :
             /\ m1.type = "issue" /\ m2.type = "issue"
             /\ m1.batch_id = proc[p].batches[1].id
             /\ m2.batch_id = proc[p].batches[2].id
             /\ m2.id = m1.id + 1
             /\ m1.quantity + m2.quantity = proc[p].issued

\* C15: no receive or issue step deletes or merges a lot, changes a lot's
\* qty_received, or increases a lot's qty_remaining: every lot is still there
\* after the step, with the same qty_received and a qty_remaining less than
\* or equal to the one before.
C15_RemainingNeverIncreases ==
    [][\A b \in batches :
          \E a \in batches' :
              /\ a.id = b.id
              /\ a.item_id = b.item_id
              /\ a.qty_received = b.qty_received
              /\ a.expiry_date = b.expiry_date
              /\ a.received_at = b.received_at
              /\ a.qty_remaining <= b.qty_remaining
      ]_vars

\* C16: a summary of an item read while an issue of that item that debits
\* several lots is in flight (read, its updates being flushed, not yet
\* committed) returns the balance from before the whole issue or the balance
\* from after it, never one with only some of its lot debits applied.  (One
\* thread writes, so the balance before the issue is the sum of what it read.)
C16_SummaryNotPartial ==
    [][\A q \in Procs :
          (proc[q].pc = "idle" /\ proc'[q].pc = "summary_next") =>
              \A p \in Procs \ {q} :
                  (/\ proc[p].pc = "issue_commit"
                   /\ proc[p].item_id = proc'[q].item_id
                   /\ Len(Takes(proc[p].batches, proc[p].qty)) >= 2)
                  => LET s == proc[p].batches
                         before ==
                            SumSeq([j \in 1..Len(s) |-> s[j].qty_remaining])
                         after == before - Min2(proc[p].qty, before)
                     IN proc'[q].remain \in {before, after}
      ]_vars

\* a summary has read the balance while an issue over two lots had flushed
\* the update of the first lot only
C16_Witness ==
    \E p, q \in Procs :
        /\ proc[q].pc = "summary_next"
        /\ proc[p].pc = "issue_commit"
        /\ proc[p].item_id = proc[q].item_id
        /\ Len(Takes(proc[p].batches, proc[p].qty)) >= 2
        /\ proc[p].flushed = 1
        /\ proc[q].remain = Balance(proc[q].item_id)

\* C17: the next expiry a summary returns is the minimum expiry date among
\* the item's lots with qty_remaining > 0 and an expiry date (as text); lots
\* without expiry and emptied lots do not count, and with no such lot the
\* summary reports no next expiry ("-").
C17_NextExpiry ==
    [][\A q \in Procs :
          (proc[q].pc = "summary_next" /\ proc'[q].pc = "idle") =>
              LET dates == {b.expiry_date :
                              b \in {x \in batches :
                                        /\ x.item_id = proc[q].item_id
                                        /\ x.qty_remaining > 0
                                        /\ x.expiry_date # NULL}}
              IN response'.next_expiry =
                    IF dates = {} THEN "-"
                    ELSE ToString(CHOOSE d \in dates : \A e \in dates : d <= e)
      ]_vars

\* a summary about to read the next expiry when the lot with the earliest
\* date is emptied, one lot has stock and no expiry, and one has stock and a
\* later date
C17_Witness ==
    \E q \in Procs :
        /\ proc[q].pc = "summary_next"
        /\ \E b1, b2, b3 \in batches :
             /\ b1.item_id = proc[q].item_id
             /\ b2.item_id = proc[q].item_id
             /\ b3.item_id = proc[q].item_id
             /\ b1.expiry_date = 1 /\ b1.qty_remaining = 0
             /\ b2.expiry_date = NULL /\ b2.qty_remaining > 0
             /\ b3.expiry_date = 2 /\ b3.qty_remaining > 0

\* C18: creating an item with, or renaming an item to, a name that another
\* item already has ends with the duplicate-name error and leaves the items
\* unchanged, whether the name is found taken by the handler's check or when
\* the handler commits; and in every state no two items have the same name.
C18_NamesUnique ==
    /\ [](\A i, j \in items : i.name = j.name => i = j)
    /\ [][\A p \in Procs, name \in CaseNames :
            (/\ proc' = proc
             /\ \E i \in items : i.name = name
             /\ ItemNewStart(p, name))
            => response' = "DuplicateName" /\ items' = items
         ]_vars
    /\ [][\A p \in Procs, item_id \in ItemIds, name \in CaseNames :
            (/\ proc' = proc
             /\ ItemExists(item_id)
             /\ \E i \in items : i.name = name /\ i.id # item_id
             /\ ItemEditStart(p, item_id, name))
            => response' = "DuplicateName" /\ items' = items
         ]_vars
    /\ [][\A p \in Procs :
            (/\ proc[p].pc \in {"item_new_commit", "item_edit_commit"}
             /\ proc'[p].pc = "idle"
             /\ \E i \in items :
                  /\ i.name = proc[p].name
                  /\ proc[p].pc = "item_edit_commit" => i.id # proc[p].item_id)
            => response' = "DuplicateName" /\ items' = items
         ]_vars

\* C19: in every state, for every lot, qty_received - qty_remaining equals
\* the sum of the quantities of the 'issue' movements that reference the lot,
\* and exactly one 'receive' movement references the lot, its quantity equal
\* to the lot's qty_received.
C19_LotLedger ==
    \A b \in batches :
        /\ b.qty_received - b.qty_remaining =
              SumQuantity({m \in movements :
                              m.type = "issue" /\ m.batch_id = b.id})
        /\ Cardinality({m \in movements :
                           m.type = "receive" /\ m.batch_id = b.id}) = 1
        /\ \A m \in movements :
              (m.type = "receive" /\ m.batch_id = b.id)
                  => m.quantity = b.qty_received

\* C20: when a fully satisfied issue returns, its note is stored on the last
\* movement that this request created, and the step that writes the note
\* changes no movement created by another request.
C20_NoteOnOwnMovement ==
    [][\A p \in Procs :
          (/\ proc[p].pc = "issue_note"
           /\ proc'[p].pc = "idle"
           /\ proc[p].issued = proc[p].qty)
          => /\ \E m \in movements' :
                  /\ m.id = Max(plan[p].created)
                  /\ m.note = proc[p].note
             /\ \A m \in movements' \ movements : m.id \in plan[p].created
      ]_vars

====
